---- MODULE Spec2Model ----
(***************************************************************************)
(* Model of the crawler's Frontier (crawler/frontier.py) and of the worker *)
(* loop (crawler/worker.py).                                               *)
(*                                                                         *)
(* Every Frontier method body runs under the coarse re-entrant lock        *)
(* self._lock, so each locked section is one atomic action.  The per-domain*)
(* locks are only ever taken while self._lock is held.  What is NOT under  *)
(* the lock is the first clock reading of get_tbd_url (line 50): it is a   *)
(* step of its own, and the clock may advance (and other workers may run)  *)
(* before the locked section uses it.                                      *)
(*                                                                         *)
(* Time is a discrete clock `now`; time_delay is TimeDelay clock units.    *)
(***************************************************************************)
EXTENDS Integers, Sequences, FiniteSets, TLC

\* ------------------------------------------------------------------ bounds
MaxTime == 3
TimeDelay == 2
MaxLinks == 1

\* ------------------------------------------------------------- the universe
Workers == {"w1", "w2"}

AllowedNetlocs == {"ics.uci.edu", "cs.uci.edu"}

Paths == {"/a", "/b"}

MkUrl(n, p, f) == [netloc |-> n, path |-> p, fragment |-> f]

\* Canonical URLs of the crawl perimeter: two pages of one host, one of another.
Urls == {MkUrl("ics.uci.edu", p, "") : p \in Paths} \cup {MkUrl("cs.uci.edu", "/a", "")}

\* The same page written with a fragment: a raw link as found in a page.
FragmentUrls == {MkUrl("ics.uci.edu", "/a", "#top")}

\* A URL outside the allowed domains.
ForeignUrls == {MkUrl("example.com", "/a", "")}

\* The empty string (falsy in Python).
EmptyUrl == MkUrl("", "", "")

\* Python's None and an unbound local variable, as values of the worker's `url`.
NoneUrl == MkUrl("", "None", "")

UnboundUrl == MkUrl("", "unbound", "")

\* What scraper.scraper returns: links that passed is_valid (scraper.py:136).
Links == Urls \cup FragmentUrls

\* What a caller may hand to the Frontier's public methods.
RawUrls == Links \cup ForeignUrls \cup {EmptyUrl}

seed_urls == <<MkUrl("ics.uci.edu", "/a", "")>>

NoTime == -1

NoDomain == ""

\* ------------------------------------------------------------ pure helpers
\* Python truthiness of the worker's / caller's url value.
Truthy(u) == u \notin {EmptyUrl, NoneUrl}

\* utils.normalize: canonical form (fragment stripped).
normalize(u) == [u EXCEPT !.fragment = ""]

\* utils.get_urlhash: fingerprint of the fragment-stripped form.
get_urlhash(u) == <<u.netloc, u.path>>

\* scraper.is_valid, restricted to what distinguishes the URLs of the model:
\* the host must be one of the allowed domains.
is_valid(u) == u.netloc \in AllowedNetlocs

\* urlparse(url).netloc
Netloc(u) == u.netloc

Range(s) == {s[i] : i \in 1..Len(s)}

\* Faulty variant: line 89 forgotten, the dispensed URL stays in its queue.
RemoveAt_KeepsUrl(s, i) == s

\* Line 89: urls.pop(i).
RemoveAt(s, i) == SubSeq(s, 1, i - 1) \o SubSeq(s, i + 1, Len(s))

Max(a, b) == IF a >= b THEN a ELSE b

\* ------------------------------------------------------------------- state
VARIABLES
    now,                \* time.time()
    save,               \* the shelve: urlhash -> [url, completed]
    domain_keys,        \* keys of domain_queues in dict insertion order
    domain_queues,      \* netloc -> list of URLs (<<>> for a missing key)
    domain_priorities,  \* netloc -> next time the domain may be served, NoTime when absent
    last_domain_check,  \* netloc -> time of the last dispense, NoTime when absent
    domain_in_progress, \* netloc -> set of URLs
    global_in_progress, \* set of URLs
    error_logged,       \* mark_url_complete logged "have not seen it before" (line 138)
    pc,                 \* per worker: position in Worker.run
    url,                \* per worker: local variable `url` of Worker.run
    current_time,       \* per worker: get_tbd_url's first clock reading (line 50)
    links_left,         \* per worker: links of new_urls not yet passed to add_url
    prev_return,        \* history: per netloc, time of the dispense before the last
    last_return,        \* history: per netloc, time of the last dispense
    returned,           \* history: URLs get_tbd_url returned in this Frontier instance
    content_fingerprints,     \* scraper.py global: the window of (url, fingerprint) entries
    call,               \* the last call of a scraper.py function: arguments and result
    analytics,          \* scraper.py globals unique_page_count, page_word_counts,
                        \* word_frequencies, total_urls_crawled
    visited_urls,       \* scraper.py global: URLs scraper() was called with
    robots_cache,       \* scraper.py global: base URL -> parsed robots.txt
    lock,               \* Frontier._lock, an RLock: owning thread and recursion count
    domain_locks,       \* Frontier._domain_locks: netloc -> RLock
    thread              \* per thread: the Frontier method it is in and how far it got

frontier == <<save, domain_keys, domain_queues, domain_priorities, last_domain_check,
              domain_in_progress, global_in_progress, error_logged>>

history == <<prev_return, last_return, returned>>

locals == <<pc, url, current_time, links_left>>

stats == <<analytics, visited_urls, robots_cache>>

scraper == <<content_fingerprints, call, stats>>

sync == <<lock, domain_locks, thread>>

vars == <<now, save, domain_keys, domain_queues, domain_priorities, last_domain_check,
          domain_in_progress, global_in_progress, error_logged, pc, url, current_time, links_left,
          prev_return, last_return, returned, content_fingerprints, call,
          analytics, visited_urls, robots_cache, lock, domain_locks, thread>>

\* Faulty variant: the URL is appended to its queue even when the store knows it.
AddUrlResult_AppendsKnown(sv, keys, dq, raw) ==
    LET u == normalize(raw)
        h == get_urlhash(u)
        d == Netloc(u)
    IN  IF ~Truthy(raw) \/ ~is_valid(u)
        THEN [save |-> sv, keys |-> keys, queues |-> dq]
        ELSE [save   |-> IF h \in DOMAIN sv THEN sv
                         ELSE (h :> [url |-> u, completed |-> FALSE]) @@ sv,
              keys   |-> IF d \in Range(keys) THEN keys ELSE Append(keys, d),
              queues |-> [dq EXCEPT ![d] = Append(@, u)]]

\* Faulty variant: only a record that is not completed counts as seen; a completed URL
\* is recorded and queued afresh.
AddUrlResult_ReAddsCompleted(sv, keys, dq, raw) ==
    LET u == normalize(raw)
        h == get_urlhash(u)
        d == Netloc(u)
    IN  IF ~Truthy(raw) \/ ~is_valid(u) \/ (h \in DOMAIN sv /\ ~sv[h].completed)
        THEN [save |-> sv, keys |-> keys, queues |-> dq]
        ELSE [save   |-> [k \in DOMAIN sv \cup {h} |->
                            IF k = h THEN [url |-> u, completed |-> FALSE] ELSE sv[k]],
              keys   |-> IF d \in Range(keys) THEN keys ELSE Append(keys, d),
              queues |-> [dq EXCEPT ![d] = Append(@, u)]]

\* ------------------------------------------------------- Frontier.add_url
\* Lines 104-120 as a function of the store and the queues: returns the new
\* store, key order and queues.
AddUrlResult(sv, keys, dq, raw) ==
    LET u == normalize(raw)
        h == get_urlhash(u)
        d == Netloc(u)
        same == [save |-> sv, keys |-> keys, queues |-> dq]
    IN  IF ~Truthy(raw) THEN same
        ELSE IF ~is_valid(u) THEN same
        ELSE IF h \in DOMAIN sv THEN same
        ELSE [save   |-> (h :> [url |-> u, completed |-> FALSE]) @@ sv,
              keys   |-> IF d \in Range(keys) THEN keys ELSE Append(keys, d),
              queues |-> [dq EXCEPT ![d] = Append(@, u)]]

\* add_url called on the Frontier's current state.
DoAddUrl(raw) ==
    LET r == AddUrlResult(save, domain_keys, domain_queues, raw)
    IN  /\ save' = r.save
        /\ domain_keys' = r.keys
        /\ domain_queues' = r.queues
        /\ UNCHANGED <<domain_priorities, last_domain_check, domain_in_progress,
                       global_in_progress, error_logged>>

\* Faulty variant: the in-progress sets are cleared but the record is never written.
DoMarkUrlComplete_NoStoreWrite(u) ==
    IF ~Truthy(u)
    THEN UNCHANGED frontier
    ELSE /\ global_in_progress' = global_in_progress \ {u}
         /\ domain_in_progress' = [domain_in_progress EXCEPT ![Netloc(u)] = @ \ {u}]
         /\ error_logged' = (error_logged \/ get_urlhash(u) \notin DOMAIN save)
         /\ UNCHANGED <<save, domain_keys, domain_queues, domain_priorities,
                        last_domain_check>>

\* Faulty variant: the check of line 137 is missing, an unknown URL gets a record.
DoMarkUrlComplete_RecordsUnknown(u) ==
    IF ~Truthy(u)
    THEN UNCHANGED frontier
    ELSE /\ global_in_progress' = global_in_progress \ {u}
         /\ domain_in_progress' = [domain_in_progress EXCEPT ![Netloc(u)] = @ \ {u}]
         /\ save' = [k \in DOMAIN save \cup {get_urlhash(u)} |->
                        IF k = get_urlhash(u) THEN [url |-> u, completed |-> TRUE]
                        ELSE save[k]]
         /\ error_logged' = (error_logged \/ get_urlhash(u) \notin DOMAIN save)
         /\ UNCHANGED <<domain_keys, domain_queues, domain_priorities,
                        last_domain_check>>

\* Faulty variant: lines 131-133 are missing, the URL stays in the in-progress sets.
DoMarkUrlComplete_KeepsInProgress(u) ==
    IF ~Truthy(u)
    THEN UNCHANGED frontier
    ELSE /\ save' = IF get_urlhash(u) \notin DOMAIN save
                    THEN save
                    ELSE [save EXCEPT ![get_urlhash(u)] = [url |-> u, completed |-> TRUE]]
         /\ error_logged' = (error_logged \/ get_urlhash(u) \notin DOMAIN save)
         /\ UNCHANGED <<domain_keys, domain_queues, domain_priorities, last_domain_check,
                        domain_in_progress, global_in_progress>>

\* Faulty variant: line 133 is missing, the URL stays in its domain's in-progress set.
DoMarkUrlComplete_KeepsDomainEntry(u) ==
    IF ~Truthy(u)
    THEN UNCHANGED frontier
    ELSE /\ global_in_progress' = global_in_progress \ {u}
         /\ save' = IF get_urlhash(u) \notin DOMAIN save
                    THEN save
                    ELSE [save EXCEPT ![get_urlhash(u)] = [url |-> u, completed |-> TRUE]]
         /\ error_logged' = (error_logged \/ get_urlhash(u) \notin DOMAIN save)
         /\ UNCHANGED <<domain_keys, domain_queues, domain_priorities, last_domain_check,
                        domain_in_progress>>

\* ------------------------------------------------- Frontier.mark_url_complete
\* Lines 122-143.
DoMarkUrlComplete(u) ==
    IF ~Truthy(u)
    THEN UNCHANGED frontier
    ELSE LET d == Netloc(u)
             h == get_urlhash(u)
         IN  /\ global_in_progress' = global_in_progress \ {u}
             /\ domain_in_progress' = [domain_in_progress EXCEPT ![d] = @ \ {u}]
             /\ save' = IF h \notin DOMAIN save
                        THEN save
                        ELSE [save EXCEPT ![h] = [url |-> u, completed |-> TRUE]]
             /\ error_logged' = (error_logged \/ h \notin DOMAIN save)
             /\ UNCHANGED <<domain_keys, domain_queues, domain_priorities,
                            last_domain_check>>

\* ---------------------------------------------------- Frontier.get_tbd_url
Inf == MaxTime + TimeDelay + 1

\* Line 62-64: the domain was served less than time_delay / 2 before `cur`.
CheckedRecently(d, cur) ==
    /\ last_domain_check[d] # NoTime
    /\ 2 * (cur - last_domain_check[d]) < TimeDelay

\* Lines 66-68.
WaitTime(d, cur) ==
    IF domain_priorities[d] # NoTime
    THEN Max(0, domain_priorities[d] - cur)
    ELSE 0

\* Lines 54-72: the loop over domain_queues.items(), from key i on, with the
\* running next_domain / min_wait_time.
RECURSIVE ScanDomains(_, _, _, _)
ScanDomains(i, cur, next_domain, min_wait_time) ==
    IF i > Len(domain_keys) THEN next_domain
    ELSE LET d == domain_keys[i]
         IN  IF domain_queues[d] = <<>>
             THEN ScanDomains(i + 1, cur, next_domain, min_wait_time)
             ELSE IF CheckedRecently(d, cur)
             THEN ScanDomains(i + 1, cur, next_domain, min_wait_time)
             ELSE IF WaitTime(d, cur) < min_wait_time
             THEN ScanDomains(i + 1, cur, d, WaitTime(d, cur))
             ELSE ScanDomains(i + 1, cur, next_domain, min_wait_time)

NextDomain(cur) == ScanDomains(1, cur, NoDomain, Inf)

\* Faulty variant: the double check of lines 80-82 is missing.
PolitenessElapsed_NoDoubleCheck(d, t) == TRUE

\* Lines 80-82: the politeness double check with the clock read under the lock.
PolitenessElapsed(d, t) ==
    ~(t < (IF domain_priorities[d] # NoTime THEN domain_priorities[d] ELSE 0))

\* Faulty variant: the queue is searched from its tail.
FirstFree_Last(q) ==
    LET free == {i \in 1..Len(q) : q[i] \notin global_in_progress}
    IN  IF free = {} THEN 0 ELSE CHOOSE i \in free : \A j \in free : i >= j

\* Lines 86-87: index of the first URL of the queue that is not in progress, 0 if none.
FirstFree(q) ==
    LET free == {i \in 1..Len(q) : q[i] \notin global_in_progress}
    IN  IF free = {} THEN 0 ELSE CHOOSE i \in free : \A j \in free : i <= j

\* The value get_tbd_url returns for a first clock reading `cur`, the clock being
\* `now` inside the locked section: a URL, or NoneUrl.
GetTbdValue(cur) ==
    LET d == NextDomain(cur)
    IN  IF d = NoDomain THEN NoneUrl
        ELSE IF ~PolitenessElapsed(d, now) THEN NoneUrl
        ELSE IF FirstFree(domain_queues[d]) = 0 THEN NoneUrl
        ELSE domain_queues[d][FirstFree(domain_queues[d])]

\* Lines 52-102, the locked section, with its effect on the Frontier.
DoGetTbdUrl(cur) ==
    LET u == GetTbdValue(cur)
        d == NextDomain(cur)
    IN  IF u = NoneUrl
        THEN UNCHANGED <<frontier, history>>
        ELSE /\ domain_queues' = [domain_queues EXCEPT
                                    ![d] = RemoveAt(@, FirstFree(domain_queues[d]))]
             /\ global_in_progress' = global_in_progress \cup {u}
             /\ domain_in_progress' = [domain_in_progress EXCEPT ![d] = @ \cup {u}]
             /\ domain_priorities' = [domain_priorities EXCEPT ![d] = now + TimeDelay]
             /\ last_domain_check' = [last_domain_check EXCEPT ![d] = now]
             /\ prev_return' = [prev_return EXCEPT ![d] = last_return[d]]
             /\ last_return' = [last_return EXCEPT ![d] = now]
             /\ returned' = returned \cup {u}
             /\ UNCHANGED <<save, domain_keys, error_logged>>

\* ------------------------------------------------ Frontier.__init__ / restart
EmptyQueues == [d \in AllowedNetlocs |-> <<>>]

Netlocs == AllowedNetlocs \cup {Netloc(u) : u \in ForeignUrls}

\* Lines 43-44 and 159-160: add_url for each seed in turn.
RECURSIVE AddSeeds(_, _, _, _)
AddSeeds(i, sv, keys, dq) ==
    IF i > Len(seed_urls) THEN [save |-> sv, keys |-> keys, queues |-> dq]
    ELSE LET r == AddUrlResult(sv, keys, dq, seed_urls[i])
         IN  AddSeeds(i + 1, r.save, r.keys, r.queues)

\* Faulty variant: _load_save_file queues completed records too.
Pending_AllRecords(sv) == {sv[h].url : h \in {k \in DOMAIN sv : is_valid(sv[k].url)}}

\* The records _load_save_file queues (line 152).
Pending(sv) == {sv[h].url : h \in {k \in DOMAIN sv : ~sv[k].completed /\ is_valid(sv[k].url)}}

\* The orders in which shelve's values() may yield the pending records.
Orders(S) == {o \in [1..Cardinality(S) -> S] : Range(o) = S}

\* Lines 151-156: the loop of _load_save_file over the records in order `o`.
RECURSIVE LoadRecords(_, _, _, _)
LoadRecords(o, i, keys, dq) ==
    IF i > Len(o) THEN [keys |-> keys, queues |-> dq]
    ELSE LET d == Netloc(o[i])
         IN  LoadRecords(o, i + 1,
                         IF d \in Range(keys) THEN keys ELSE Append(keys, d),
                         [dq EXCEPT ![d] = Append(@, o[i])])

\* Lines 145-164: _load_save_file on store sv read in order o.
LoadSaveFile(sv, o) ==
    LET l == LoadRecords(o, 1, <<>>, EmptyQueues)
    IN  IF DOMAIN sv = {}
        THEN AddSeeds(1, sv, l.keys, l.queues)
        ELSE [save |-> sv, keys |-> l.keys, queues |-> l.queues]

\* No scraper.py function has been called.
NoCall == [fn |-> "none"]

NoTimes == [d \in AllowedNetlocs |-> NoTime]

NothingInProgress == [d \in Netlocs |-> {}]

\* Worker.__init__ for every worker: run() has not bound `url` yet.
FreshLocals ==
    [pc           |-> [w \in Workers |-> "get"],
     url          |-> [w \in Workers |-> UnboundUrl],
     current_time |-> [w \in Workers |-> NoTime],
     links_left   |-> [w \in Workers |-> 0]]

\* Frontier(config, restart) on a missing save file: the store is empty and the
\* seeds are added; the workers are at the top of their loop.
FrontierInit ==
    LET r == AddSeeds(1, <<>>, <<>>, EmptyQueues)
    IN  /\ now = 0
        /\ save = r.save
        /\ domain_keys = r.keys
        /\ domain_queues = r.queues
        /\ domain_priorities = NoTimes
        /\ last_domain_check = NoTimes
        /\ domain_in_progress = NothingInProgress
        /\ global_in_progress = {}
        /\ error_logged = FALSE
        /\ pc = FreshLocals.pc
        /\ url = FreshLocals.url
        /\ current_time = FreshLocals.current_time
        /\ links_left = FreshLocals.links_left
        /\ prev_return = NoTimes
        /\ last_return = NoTimes
        /\ returned = {}

\* scraper.py lines 16-17, 24-26, 31, 32: the module's globals when it is loaded.
NoAnalytics ==
    [unique_page_count |-> {}, page_word_counts |-> <<>>, word_frequencies |-> 0,
     total_urls_crawled |-> 0]

StatsInit ==
    /\ analytics = NoAnalytics
    /\ visited_urls = {}
    /\ robots_cache = <<>>

\* frontier.py lines 16-17: no thread holds a lock, no thread is inside a method.
NoOwner == "nobody"

Unlocked == [owner |-> NoOwner, count |-> 0]

Idle == [op |-> "idle", at |-> "idle", arg |-> UnboundUrl, cur |-> NoTime, domain |-> NoDomain]

SyncInit ==
    /\ lock = Unlocked
    /\ domain_locks = [d \in Netlocs |-> Unlocked]
    /\ thread = [w \in Workers |-> Idle]

\* The crawler's start: no page has been scraped yet.
Init ==
    /\ FrontierInit
    /\ content_fingerprints = <<>>
    /\ call = NoCall
    /\ StatsInit
    /\ SyncInit

\* The process exits (at any point) and is started again with restart=False on
\* the same save file: memory is lost, the shelve is kept.
Restart ==
    \E o \in Orders(Pending(save)) :
        LET r == LoadSaveFile(save, o)
        IN  /\ save' = r.save
            /\ domain_keys' = r.keys
            /\ domain_queues' = r.queues
            /\ domain_priorities' = NoTimes
            /\ last_domain_check' = NoTimes
            /\ domain_in_progress' = NothingInProgress
            /\ global_in_progress' = {}
            /\ error_logged' = FALSE
            /\ pc' = FreshLocals.pc
            /\ url' = FreshLocals.url
            /\ current_time' = FreshLocals.current_time
            /\ links_left' = FreshLocals.links_left
            /\ prev_return' = NoTimes
            /\ last_return' = NoTimes
            /\ returned' = {}
            /\ UNCHANGED <<scraper, sync, now>>

\* ---------------------------------------------------------------- the clock
Tick ==
    /\ now < MaxTime
    /\ now' = now + 1
    /\ UNCHANGED <<scraper, sync, frontier, locals, history>>

\* ---------------------------------------------------------------- Worker.run
\* frontier.py line 50, reached from worker.py line 27: the clock is read
\* before the lock is taken.
ReadClock(w) ==
    /\ pc[w] = "get"
    /\ current_time' = [current_time EXCEPT ![w] = now]
    /\ pc' = [pc EXCEPT ![w] = "locked"]
    /\ UNCHANGED <<scraper, sync, now, frontier, url, links_left, history>>

\* worker.py lines 27-32: get_tbd_url's locked section returns; on None the
\* worker sleeps and starts over.
GetTbdUrl(w) ==
    /\ pc[w] = "locked"
    /\ DoGetTbdUrl(current_time[w])
    /\ url' = [url EXCEPT ![w] = GetTbdValue(current_time[w])]
    /\ pc' = [pc EXCEPT ![w] = IF GetTbdValue(current_time[w]) = NoneUrl
                                 THEN "get" ELSE "download"]
    /\ current_time' = [current_time EXCEPT ![w] = NoTime]
    /\ UNCHANGED <<scraper, sync, now, links_left>>

\* Faulty variant: line 41 is missing, a status other than 200 goes straight to the
\* next iteration.
Download_SkipsComplete(w) ==
    /\ pc[w] = "download"
    /\ \/ /\ pc' = [pc EXCEPT ![w] = "except"]
          /\ UNCHANGED links_left
       \/ /\ pc' = [pc EXCEPT ![w] = "get"]
          /\ UNCHANGED links_left
       \/ \E n \in 1..MaxLinks :
             /\ links_left' = [links_left EXCEPT ![w] = n]
             /\ pc' = [pc EXCEPT ![w] = "add"]
    /\ UNCHANGED <<scraper, sync, now, frontier, url, current_time, history>>

\* worker.py lines 35-49.  download raises (on to the handler); or it returns a
\* status other than 200, or 200 with scraper.scraper returning no link (it
\* catches its own exceptions and then returns []): mark_url_complete is next
\* (line 41 or 59); or scraper.scraper returns 1..MaxLinks new_urls.  Neither
\* call touches the Frontier.  Only the number of new_urls is kept; each link
\* is chosen when it is passed to add_url.
Download(w) ==
    /\ pc[w] = "download"
    /\ \/ /\ pc' = [pc EXCEPT ![w] = "except"]
          /\ UNCHANGED links_left
       \/ /\ pc' = [pc EXCEPT ![w] = "complete"]
          /\ UNCHANGED links_left
       \/ \E n \in 1..MaxLinks :
             /\ links_left' = [links_left EXCEPT ![w] = n]
             /\ pc' = [pc EXCEPT ![w] = "add"]
    /\ UNCHANGED <<scraper, sync, now, frontier, url, current_time, history>>

\* worker.py lines 53-56: one add_url call of the loop.
AddUrl(w) ==
    /\ pc[w] = "add"
    /\ \E new_url \in Links : DoAddUrl(new_url)
    /\ links_left' = [links_left EXCEPT ![w] = @ - 1]
    /\ pc' = [pc EXCEPT ![w] = IF links_left[w] = 1 THEN "complete" ELSE "add"]
    /\ UNCHANGED <<scraper, sync, now, url, current_time, history>>

\* worker.py lines 41 and 59: mark_url_complete(url), then the next iteration.
MarkUrlComplete(w) ==
    /\ pc[w] = "complete"
    /\ DoMarkUrlComplete(url[w])
    /\ pc' = [pc EXCEPT ![w] = "get"]
    /\ UNCHANGED <<scraper, sync, now, url, current_time, links_left, history>>

\* worker.py lines 61-65: the except clause.  Formatting the log message reads
\* `url`: if it was never bound the handler itself raises and run() ends.
Except(w) ==
    /\ pc[w] = "except"
    /\ IF url[w] = UnboundUrl
       THEN /\ pc' = [pc EXCEPT ![w] = "dead"]
            /\ UNCHANGED frontier
       ELSE /\ pc' = [pc EXCEPT ![w] = "get"]
            /\ IF Truthy(url[w]) THEN DoMarkUrlComplete(url[w]) ELSE UNCHANGED frontier
    /\ UNCHANGED <<scraper, sync, now, url, current_time, links_left, history>>

WorkerStep(w) ==
    \/ ReadClock(w)
    \/ GetTbdUrl(w)
    \/ Download(w)
    \/ AddUrl(w)
    \/ MarkUrlComplete(w)
    \/ Except(w)

Next ==
    \/ Tick
    \/ Restart
    \/ \E w \in Workers : WorkerStep(w)

Spec == Init /\ [][Next]_vars

\* ------------------------------------------- the Frontier called directly
\* Any number of threads call the three public methods with any arguments in
\* any order (the worker's pattern is one such order).  A thread that calls
\* get_tbd_url read the clock (line 50) at some time cur <= now before it got
\* the lock.
ApiAddUrl(raw) ==
    /\ DoAddUrl(raw)
    /\ UNCHANGED <<scraper, sync, now, locals, history>>

ApiMarkUrlComplete(u) ==
    /\ DoMarkUrlComplete(u)
    /\ UNCHANGED <<scraper, sync, now, locals, history>>

ApiGetTbdUrl(cur) ==
    /\ DoGetTbdUrl(cur)
    /\ UNCHANGED <<scraper, sync, now, locals>>

NextAPI ==
    \/ Tick
    \/ Restart
    \/ \E raw \in RawUrls : ApiAddUrl(raw)
    \/ \E u \in RawUrls : ApiMarkUrlComplete(u)
    \/ \E cur \in 0..now : ApiGetTbdUrl(cur)

SpecAPI == Init /\ [][NextAPI]_vars

\* ------------------------------------------------------- calls that raise
\* get_tbd_url raises before it has changed anything.
GetTbdUrlRaises(w) ==
    /\ pc[w] = "get"
    /\ pc' = [pc EXCEPT ![w] = "except"]
    /\ UNCHANGED <<scraper, sync, now, frontier, url, current_time, links_left, history>>

\* add_url raises on a new URL: either the record insert (line 116) fails and
\* nothing is stored, or sync (line 117) fails after the record was inserted;
\* in both cases line 120 is not reached.
AddUrlRaises(w) ==
    /\ pc[w] = "add"
    /\ \E new_url \in Links :
          /\ get_urlhash(normalize(new_url)) \notin DOMAIN save
          /\ \/ UNCHANGED save
             \/ save' = AddUrlResult(save, domain_keys, domain_queues, new_url).save
    /\ links_left' = [links_left EXCEPT ![w] = 0]
    /\ pc' = [pc EXCEPT ![w] = "except"]
    /\ UNCHANGED <<scraper, sync, now, domain_keys, domain_queues, domain_priorities, last_domain_check,
                   domain_in_progress, global_in_progress, error_logged, url,
                   current_time, history>>

\* mark_url_complete of a known URL raises at the store write (line 142, record
\* unchanged) or at sync (line 143, record written); lines 131-133 have run.
MarkRaises(u) ==
    /\ Truthy(u)
    /\ get_urlhash(u) \in DOMAIN save
    /\ global_in_progress' = global_in_progress \ {u}
    /\ domain_in_progress' = [domain_in_progress EXCEPT ![Netloc(u)] = @ \ {u}]
    /\ \/ UNCHANGED save
       \/ save' = [save EXCEPT ![get_urlhash(u)] = [url |-> u, completed |-> TRUE]]
    /\ UNCHANGED <<domain_keys, domain_queues, domain_priorities, last_domain_check,
                   error_logged>>

\* worker.py lines 41 and 59 when mark_url_complete raises: on to the handler.
MarkUrlCompleteRaises(w) ==
    /\ pc[w] = "complete"
    /\ MarkRaises(url[w])
    /\ pc' = [pc EXCEPT ![w] = "except"]
    /\ UNCHANGED <<scraper, sync, now, url, current_time, links_left, history>>

\* worker.py line 65 when mark_url_complete raises inside the handler: nothing
\* catches it and run() ends.
ExceptRaises(w) ==
    /\ pc[w] = "except"
    /\ url[w] # UnboundUrl
    /\ MarkRaises(url[w])
    /\ pc' = [pc EXCEPT ![w] = "dead"]
    /\ UNCHANGED <<scraper, sync, now, url, current_time, links_left, history>>

NextFault ==
    \/ Next
    \/ \E w \in Workers : GetTbdUrlRaises(w)
    \/ \E w \in Workers : AddUrlRaises(w)
    \/ \E w \in Workers : MarkUrlCompleteRaises(w)
    \/ \E w \in Workers : ExceptRaises(w)

SpecFault == Init /\ [][NextFault]_vars

\* One run of the process (no exit), calls that raise included.
NextRun ==
    \/ Tick
    \/ \E w \in Workers : WorkerStep(w)
    \/ \E w \in Workers : GetTbdUrlRaises(w)
    \/ \E w \in Workers : AddUrlRaises(w)
    \/ \E w \in Workers : MarkUrlCompleteRaises(w)
    \/ \E w \in Workers : ExceptRaises(w)

\* Every worker thread of the run keeps being scheduled.
FairRun == Init /\ [][NextRun]_vars /\ \A w \in Workers : WF_vars(WorkerStep(w))

\* ================================================================ properties
\* All URLs in some per-host queue, and how often one occurs across the queues.
Queued(dq) == UNION {Range(dq[d]) : d \in DOMAIN dq}

Occurrences(dq, u) ==
    Cardinality({p \in UNION {{<<d, i>> : i \in 1..Len(dq[d])} : d \in DOMAIN dq} :
                    dq[p[1]][p[2]] = u})

Completed(sv) == {sv[h].url : h \in {k \in DOMAIN sv : sv[k].completed}}

NotCompleted(sv) == {sv[h].url : h \in {k \in DOMAIN sv : ~sv[k].completed}}

TypeOK ==
    /\ now \in 0..MaxTime
    /\ global_in_progress \subseteq Urls
    /\ Queued(domain_queues) \subseteq Urls
    /\ \A w \in Workers : pc[w] \in {"get", "locked", "download", "add",
                                     "complete", "except", "dead"}

\* C1 (politeness gap): for every host key, two successive get_tbd_url returns
\* of URLs of that host are at least time_delay apart, whatever the threads
\* calling add_url / get_tbd_url / mark_url_complete do and however stale the
\* first clock reading of get_tbd_url is.
C1_PolitenessGap ==
    \A d \in AllowedNetlocs :
        prev_return[d] # NoTime => last_return[d] - prev_return[d] >= TimeDelay

\* Two URLs of one host were dispensed by the same Frontier instance.
C1_Witness ==
    \E d \in AllowedNetlocs :
        /\ prev_return[d] # NoTime
        /\ Cardinality({u \in returned : Netloc(u) = d}) = 2

\* C2 (one outstanding request per host): at most one URL of a host is
\* dispensed and not yet completed.
C2_OneOutstandingPerHost ==
    \A d \in AllowedNetlocs :
        Cardinality({u \in global_in_progress : Netloc(u) = d}) <= 1

\* C3 (uniqueness): a URL that get_tbd_url returns was never returned before
\* by this Frontier instance, whatever add_url / mark_url_complete calls
\* (repeated ones included) came in between.
C3_Uniqueness ==
    [][\A u \in Urls :
          (u \in global_in_progress' /\ u \notin global_in_progress) => u \notin returned]_vars

\* A URL was dispensed and completed, a second one was dispensed after it, and
\* the store still knows both (so a repeated add_url of either is dropped).
C3_Witness ==
    \E u, v \in returned :
        /\ u # v
        /\ u \in Completed(save)
        /\ v \in global_in_progress

C5_AddUrlIdempotent ==
    /\ \A raw \in RawUrls :
        LET r1 == AddUrlResult(save, domain_keys, domain_queues, raw)
            r2 == AddUrlResult(r1.save, r1.keys, r1.queues, raw)
        IN  /\ r2 = r1
            /\ (Truthy(raw) /\ is_valid(normalize(raw)))
                  => get_urlhash(normalize(raw)) \in DOMAIN r1.save
            /\ \A u \in Urls : Occurrences(r1.queues, u) <= 1
    /\ \A u \in Urls : Occurrences(domain_queues, u) <= 1

\* The store knows a URL that is in no queue (it was dispensed), and a URL it
\* has never seen is still left to add.
C5_Witness ==
    /\ \E u \in Urls : get_urlhash(u) \in DOMAIN save /\ u \notin Queued(domain_queues)
    /\ \E u \in Urls : get_urlhash(u) \notin DOMAIN save
    /\ Cardinality(DOMAIN save) >= 2

C8_MarkUrlComplete ==
    /\ [][\A u \in RawUrls :
            ApiMarkUrlComplete(u) =>
                IF get_urlhash(u) \notin DOMAIN save
                THEN /\ save' = save
                     /\ domain_queues' = domain_queues
                     /\ domain_keys' = domain_keys
                ELSE /\ u \notin global_in_progress'
                     /\ u \notin domain_in_progress'[Netloc(u)]
                     /\ save'[get_urlhash(u)].completed
                     /\ DOMAIN save' = DOMAIN save
                     /\ domain_queues' = domain_queues]_vars
    /\ [](\A u \in RawUrls : ENABLED ApiMarkUrlComplete(u))

\* mark_url_complete was called for a URL the store did not know, and a known
\* URL was completed.
C8_Witness ==
    /\ error_logged
    /\ Completed(save) # {}

\* C9 (every dispensed URL is completed): a worker asks for another URL only
\* after the URL it was handed has left the in-progress set, on every outcome
\* of the iteration (status 200, another status, an exception in download or
\* in add_url), and under fair scheduling every in-progress URL leaves the set.
C9_DispensedIsCompleted ==
    /\ [](\A w \in Workers :
            pc[w] \in {"get", "locked"} => url[w] \notin global_in_progress)
    /\ \A u \in Urls : (u \in global_in_progress) ~> (u \notin global_in_progress)

\* A worker is in its exception handler with its URL still in progress.
C9_Witness ==
    \E w \in Workers : pc[w] = "except" /\ url[w] \in global_in_progress

\* C10 (the worker loop is infallible): no exception leaves Worker.run.
C10_WorkerNeverDies ==
    \A w \in Workers : pc[w] # "dead"

\* ------------------------------------------------------------ robots.txt
\* The robots.txt of ics.uci.edu disallows /b; every other page is allowed.
RobotsDisallowed == {MkUrl("ics.uci.edu", "/b", "")}

\* scraper.is_allowed_by_robots: the host's policy answers can_fetch("*", url)
\* (allow-all when robots.txt cannot be fetched).
is_allowed_by_robots(u) == normalize(u) \notin RobotsDisallowed

\* C11 (robots gate before add): no URL that its host's robots.txt disallows
\* is in a queue: every link a worker hands to add_url passed the robots check.
C11_RobotsGate ==
    \A u \in Queued(domain_queues) : is_allowed_by_robots(u)

\* ------------------------------------------------------- eligible hosts
\* A host that may be served at time t: its queue is not empty, none of its
\* URLs is in progress, and its politeness delay has elapsed (or it was never
\* served).
Eligible(d, t) ==
    /\ domain_queues[d] # <<>>
    /\ domain_in_progress[d] = {}
    /\ (domain_priorities[d] = NoTime \/ t >= domain_priorities[d])

\* C12 (no spurious None): when get_tbd_url runs while some host is eligible,
\* it returns a URL, not None.
C12_NoSpuriousNone ==
    [][\A w \in Workers :
          (GetTbdUrl(w) /\ \E d \in AllowedNetlocs : Eligible(d, now))
              => url'[w] # NoneUrl]_vars

\* The same with the host already eligible at the call's first clock reading.
C12_Probe_EligibleAtCall ==
    [][\A w \in Workers :
          (GetTbdUrl(w) /\ \E d \in AllowedNetlocs :
                               Eligible(d, now) /\ Eligible(d, current_time[w]))
              => url'[w] # NoneUrl]_vars

\* q is an initial segment of r.
IsPrefix(q, r) == Len(q) <= Len(r) /\ SubSeq(r, 1, Len(q)) = q

\* C13 (per-host FIFO): within one run a host queue only grows at its tail (add_url)
\* and only shrinks by its head, which is the URL get_tbd_url returns; so of two
\* URLs of a host the one appended first is returned first.
C13_PerHostFIFO ==
    [][~Restart =>
          \A d \in AllowedNetlocs :
              \/ IsPrefix(domain_queues[d], domain_queues'[d])
              \/ /\ domain_queues[d] # <<>>
                 /\ domain_queues'[d] = Tail(domain_queues[d])
                 /\ returned' = returned \cup {Head(domain_queues[d])}
                 /\ Head(domain_queues[d]) \notin returned]_vars

\* /a of ics.uci.edu was appended before /b; /a has been returned, /b is now the head.
C13_Witness ==
    /\ domain_queues["ics.uci.edu"] = <<MkUrl("ics.uci.edu", "/b", "")>>
    /\ returned = {MkUrl("ics.uci.edu", "/a", "")}
    /\ last_return["ics.uci.edu"] # NoTime

\* ================================================================ scraper.py
\* The functions of scraper.py are checked on their own: the Frontier is idle
\* and each step is one call, recorded in `call`.
HashBits == 4

\* SimHash fingerprints of width hash_bits (lines 100-106 set bits 0..hash_bits-1 only).
Fingerprints == 0..(2^HashBits - 1)

\* Python's & and ^ on non-negative integers.
RECURSIVE BitAnd(_, _)
BitAnd(x, y) ==
    IF x = 0 \/ y = 0 THEN 0
    ELSE ((x % 2) * (y % 2)) + 2 * BitAnd(x \div 2, y \div 2)

RECURSIVE BitXor(_, _)
BitXor(x, y) ==
    IF x = 0 THEN y
    ELSE IF y = 0 THEN x
    ELSE (((x % 2) + (y % 2)) % 2) + 2 * BitXor(x \div 2, y \div 2)

\* Lines 114-116: the loop of SimHash.distance.
RECURSIVE CountLoop(_, _)
CountLoop(x, diff_bits) ==
    IF x = 0 THEN diff_bits
    ELSE CountLoop(BitAnd(x, x - 1), diff_bits + 1)

\* Faulty variant: the loop shifts x instead of clearing its lowest set bit.
RECURSIVE CountLoop_Shifts(_, _)
CountLoop_Shifts(x, diff_bits) ==
    IF x = 0 THEN diff_bits
    ELSE CountLoop_Shifts(x \div 2, diff_bits + 1)

distance_Shifts(a, b) == CountLoop_Shifts(BitXor(a, b), 0)

\* Lines 108-117: SimHash.distance on the two hash_value fields.
distance(a, b) == CountLoop(BitXor(a, b), 0)

\* Two fingerprints are given; a.distance(b) is about to be called.
InitSimHash ==
    /\ FrontierInit
    /\ content_fingerprints = <<>>
    /\ StatsInit
    /\ SyncInit
    /\ \E a \in Fingerprints, b \in Fingerprints :
          call = [fn |-> "distance", a |-> a, b |-> b, done |-> FALSE, result |-> 0]

\* The call a.distance(b).
Distance ==
    /\ call.fn = "distance"
    /\ ~call.done
    /\ call' = [call EXCEPT !.done = TRUE, !.result = distance(call.a, call.b)]
    /\ UNCHANGED <<now, sync, frontier, locals, history, content_fingerprints, stats>>

NextSimHash == Distance

SpecSimHash == InitSimHash /\ [][NextSimHash]_vars

\* Bit i of x, and the number of bit positions in which a and b differ.
Bit(x, i) == (x \div (2^i)) % 2

DifferingBits(a, b) == Cardinality({i \in 0..(HashBits - 1) : Bit(a, i) # Bit(b, i)})

\* C14 (SimHash distance): distance is symmetric, zero on equal fingerprints, and
\* equals the number of bit positions in which the two fingerprints differ.
C14_SimHashDistance ==
    (call.fn = "distance" /\ call.done) =>
        /\ call.result = distance(call.b, call.a)
        /\ distance(call.a, call.a) = 0
        /\ (call.a = call.b => call.result = 0)
        /\ call.result = DifferingBits(call.a, call.b)

\* distance(0101, 0110) was computed: two positions differ.
C14_Witness ==
    /\ call.fn = "distance"
    /\ call.done
    /\ call.a = 5
    /\ call.b = 6
    /\ call.result = 2

\* ------------------------------------------------------------------ is_trap
\* What urlparse(url) gives is_trap (lines 357-359): the lower-cased path as the
\* sequence of its segments ("/" + segment each; <<>> is the empty path, <<"">> is
\* "/", a last segment "" is a trailing slash) and the lower-cased query as the
\* sequence of its "&"-separated parameters.
MaxSegs == 3

MaxParams == 2

Segments == {"", "people", "wiki", "~user", "2020", "05", "index.html"}

Params == {"version=1", "do=index", "id=1?do=index", "from=2020-01-01",
           "precision=second", "id=1"}

SeqsUpTo(S, n) == UNION {[1..k -> S] : k \in 0..n}

TrapPaths == SeqsUpTo(Segments, MaxSegs)

TrapQueries == SeqsUpTo(Params, MaxParams)

\* Line 365-372: the first path components is_trap treats as important.
important_paths ==
    {"seminars", "people", "faculty", "staff", "research", "grad", "phd", "courses",
     "news", "contact", "about", "explore", "seminar-series", "chairs-message",
     "what-is-statistics", "tutoring-resources", "m-s-ph-d-in-statistics",
     "grad-student-directory", "minor-in-statistics"}

\* Substring tests on the path.
WikiInPath(path) == \E i \in 1..Len(path) : path[i] = "wiki"

TildeInPath(path) == \E i \in 1..Len(path) : path[i] = "~user"

\* Line 373: path.startswith("/" + p + "/") for an important p.
StartsWithImportant(path) == Len(path) >= 2 /\ path[1] \in important_paths

\* Line 377.
IsRootPath(path) == path \in {<<"">>, <<>>, <<"index.html">>, <<"index.htm">>}

\* Lines 387-388: /dddd/dd/ occurs in the path (the longer pattern contains it).
DatePath(path) ==
    \E i \in 1..Len(path) : i + 1 < Len(path) /\ path[i] = "2020" /\ path[i + 1] = "05"

\* Substring tests and counts on the query.
VersionInQuery(query) == \E i \in 1..Len(query) : query[i] = "version=1"

ParamLen(p) ==
    CASE p = "version=1" -> 9
      [] p = "do=index" -> 8
      [] p = "id=1?do=index" -> 13
      [] p = "from=2020-01-01" -> 15
      [] p = "precision=second" -> 16
      [] p = "id=1" -> 4

RECURSIVE QueryLen(_)
QueryLen(query) ==
    IF query = <<>> THEN 0
    ELSE ParamLen(Head(query)) + (IF Len(query) > 1 THEN 1 ELSE 0) + QueryLen(Tail(query))

Ampersands(query) == IF query = <<>> THEN 0 ELSE Len(query) - 1

\* Line 397: \?do=(index|revisions|diff|backlink) needs a literal "?" in the query.
QuestionDo(query) == \E i \in 1..Len(query) : query[i] = "id=1?do=index"

TimestampFrom(query) == \E i \in 1..Len(query) : query[i] = "from=2020-01-01"

TimestampPrecision(query) == \E i \in 1..Len(query) : query[i] = "precision=second"

CountDo(query) ==
    Cardinality({i \in 1..Len(query) : query[i] \in {"do=index", "id=1?do=index"}})

CountFrom(query) == Cardinality({i \in 1..Len(query) : query[i] = "from=2020-01-01"})

\* Lines 385-405: the trap patterns.
TrapPattern(path, query) ==
    \/ DatePath(path)
    \/ QueryLen(query) > 100
    \/ Ampersands(query) > 5
    \/ QuestionDo(query)
    \/ TimestampFrom(query)
    \/ TimestampPrecision(query)
    \/ CountDo(query) > 1
    \/ CountFrom(query) > 1

\* Lines 353-410.
is_trap(path, query) ==
    IF WikiInPath(path) /\ VersionInQuery(query) THEN TRUE
    ELSE IF StartsWithImportant(path) THEN FALSE
    ELSE IF IsRootPath(path) THEN FALSE
    ELSE IF TildeInPath(path) THEN FALSE
    ELSE TrapPattern(path, query)

\* A URL is given; is_trap(url) is about to be called.
InitTrap ==
    /\ FrontierInit
    /\ content_fingerprints = <<>>
    /\ StatsInit
    /\ SyncInit
    /\ \E path \in TrapPaths, query \in TrapQueries :
          call = [fn |-> "is_trap", path |-> path, query |-> query,
                  done |-> FALSE, result |-> FALSE]

\* The call is_trap(url).
IsTrap ==
    /\ call.fn = "is_trap"
    /\ ~call.done
    /\ call' = [call EXCEPT !.done = TRUE, !.result = is_trap(call.path, call.query)]
    /\ UNCHANGED <<now, sync, frontier, locals, history, content_fingerprints, stats>>

NextTrap == IsTrap

SpecTrap == InitTrap /\ [][NextTrap]_vars

\* The paths the whitelist names: root, important prefix, tilde-user page.
Whitelisted(path) == IsRootPath(path) \/ StartsWithImportant(path) \/ TildeInPath(path)

\* C15 (trap whitelist short-circuit): for a URL whose path is the root path, starts
\* with an important prefix or is a tilde-user page, is_trap returns false whatever
\* the rest of the path and the query are.
C15_TrapWhitelist ==
    (call.fn = "is_trap" /\ call.done /\ Whitelisted(call.path)) => call.result = FALSE

\* The same for URLs that do not have both "wiki" in the path and "version" in the query.
C15_Probe_NoWikiVersion ==
    (/\ call.fn = "is_trap"
     /\ call.done
     /\ Whitelisted(call.path)
     /\ ~(WikiInPath(call.path) /\ VersionInQuery(call.query))) => call.result = FALSE

\* I7 alone: the path "/" is never a trap.
C15_Probe_RootPath ==
    (call.fn = "is_trap" /\ call.done /\ call.path = <<"">>) => call.result = FALSE

\* ----------------------------------------------------------------- is_valid
\* The URL string is scheme "://" netloc, then "/" + segment for each path
\* segment, then "?" + query if the query is not empty.
Schemes == {"http", "https", "ftp"}

Hosts == {"ics.uci.edu", "www.ics.uci.edu", "www.informatics.uci.edu",
          "evilics.uci.edu", "example.com"}

ValidSegments == {"about", "about.html", "paper.pdf", "lib.js", "page.shtml",
                  "docs", "login"}

ValidQueries == {"", "id=1", "file=a.py"}

ValidPaths == SeqsUpTo(ValidSegments, MaxSegs)

\* Lines 502-507.
allowed_domains == {"ics.uci.edu", "cs.uci.edu", "informatics.uci.edu", "stat.uci.edu"}

\* Lines 511-515: domain == allowed_domain or domain.endswith("." + allowed_domain).
DomainAllowed(netloc) ==
    \/ netloc \in allowed_domains
    \/ netloc \in {"www.ics.uci.edu", "www.informatics.uci.edu"}

\* Lines 521-539.
invalid_extensions ==
    {"pdf", "doc", "docx", "ppt", "pptx", "ppsx", "xls", "xlsx", "csv",
     "txt", "rtf", "odc", "odt", "ods", "odp", "tex", "ps", "eps", "cls", "bib",
     "jpg", "jpeg", "png", "gif", "bmp", "tiff", "ico", "svg", "webp", "heic", "heif",
     "hevc", "avif", "img",
     "mp3", "mp4", "wav", "avi", "mov", "wmv", "flv", "mkv", "webm",
     "mpg", "mpeg", "m4v", "3gp", "ogg", "ogv",
     "zip", "rar", "gz", "tar", "7z", "bz2", "xz", "deb", "rpm", "msi", "apk",
     "css", "js", "json", "xml", "rss", "atom", "php", "war", "tgz",
     "exe", "dll", "so", "dmg", "iso", "bin", "swf", "woff", "woff2", "eot", "ttf",
     "fig", "ss",
     "rkt", "py", "data", "java", "hqx", "lif", "asp", "lca", "pq", "hash", "shar",
     "cp", "ma", "tif", "db",
     "cpp", "diff", "dtd", "emx", "ff", "grm", "in", "io", "lsp", "mat", "nb", "pov",
     "pps", "rle", "rls", "sas", "scm", "sh", "sql", "uai"}

\* The extensions ext for which "." + ext occurs in the piece of the URL.
DotExtsIn(piece) ==
    CASE piece = "www.informatics.uci.edu" -> {"in"}
      [] piece = "paper.pdf" -> {"pdf"}
      [] piece = "lib.js" -> {"js"}
      [] piece = "page.shtml" -> {"sh"}
      [] piece = "file=a.py" -> {"py"}
      [] OTHER -> {}

\* Lines 541-544: "." + ext occurs somewhere in the lower-cased URL.
ContainsInvalidExtension(netloc, path, query) ==
    \/ DotExtsIn(netloc) \cap invalid_extensions # {}
    \/ \E i \in 1..Len(path) : DotExtsIn(path[i]) \cap invalid_extensions # {}
    \/ DotExtsIn(query) \cap invalid_extensions # {}

\* Lines 548-554: a resource directory name between two slashes.
ResourceDirs ==
    {"images", "img", "media", "video", "audio", "download", "css", "js", "assets",
     "fonts", "static", "uploads", "files", "bibs", "publications", "docs", "papers",
     "pdfs"}

\* Line 558.
CalendarDirs == {"calendar", "event", "events", "archive"}

\* Lines 562-567: names matched with a closing slash, and names matched as the
\* start of a segment.
ProblemDirs == {"print", "api", "ajax", "cgi-bin", "wp-content", "admin", "backup", "raw"}

SegmentStartsProblem(seg) == seg = "login"

DisallowedPath(path) ==
    \/ \E i \in 1..Len(path) :
          i < Len(path) /\ path[i] \in ResourceDirs \cup CalendarDirs \cup ProblemDirs
    \/ \E i \in 1..Len(path) : SegmentStartsProblem(path[i])

PieceLen(piece) ==
    CASE piece = "http" -> 4
      [] piece = "https" -> 5
      [] piece = "ftp" -> 3
      [] piece = "ics.uci.edu" -> 11
      [] piece = "www.ics.uci.edu" -> 15
      [] piece = "www.informatics.uci.edu" -> 23
      [] piece = "evilics.uci.edu" -> 15
      [] piece = "example.com" -> 11
      [] piece = "about" -> 5
      [] piece = "about.html" -> 10
      [] piece = "paper.pdf" -> 9
      [] piece = "lib.js" -> 6
      [] piece = "page.shtml" -> 10
      [] piece = "docs" -> 4
      [] piece = "login" -> 5
      [] piece = "" -> 0
      [] piece = "id=1" -> 4
      [] piece = "file=a.py" -> 9

RECURSIVE PathLen(_)
PathLen(path) == IF path = <<>> THEN 0 ELSE 1 + PieceLen(Head(path)) + PathLen(Tail(path))

UrlLen(scheme, netloc, path, query) ==
    PieceLen(scheme) + 3 + PieceLen(netloc) + PathLen(path)
        + (IF query = "" THEN 0 ELSE 1 + PieceLen(query))

\* Lines 484-578.
IsValid(scheme, netloc, path, query) ==
    IF scheme \notin {"http", "https"} THEN FALSE
    ELSE IF ~DomainAllowed(netloc) THEN FALSE
    ELSE IF ContainsInvalidExtension(netloc, path, query) THEN FALSE
    ELSE IF DisallowedPath(path) THEN FALSE
    ELSE IF UrlLen(scheme, netloc, path, query) > 200 THEN FALSE
    ELSE TRUE

\* A URL is given; is_valid(url) is about to be called.
InitValid ==
    /\ FrontierInit
    /\ content_fingerprints = <<>>
    /\ StatsInit
    /\ SyncInit
    /\ \E scheme \in Schemes, netloc \in Hosts, path \in ValidPaths, query \in ValidQueries :
          call = [fn |-> "is_valid", scheme |-> scheme, netloc |-> netloc, path |-> path,
                  query |-> query, done |-> FALSE, result |-> FALSE]

\* The call is_valid(url).
IsValidCall ==
    /\ call.fn = "is_valid"
    /\ ~call.done
    /\ call' = [call EXCEPT !.done = TRUE,
                            !.result = IsValid(call.scheme, call.netloc, call.path, call.query)]
    /\ UNCHANGED <<now, sync, frontier, locals, history, content_fingerprints, stats>>

NextValid == IsValidCall

SpecValid == InitValid /\ [][NextValid]_vars

\* The text after the last "." of the last path segment, "" if there is none.
FinalExtension(path) ==
    IF path = <<>> THEN ""
    ELSE CASE path[Len(path)] = "about.html" -> "html"
           [] path[Len(path)] = "paper.pdf" -> "pdf"
           [] path[Len(path)] = "lib.js" -> "js"
           [] path[Len(path)] = "page.shtml" -> "shtml"
           [] OTHER -> ""

\* The conditions of the claim other than the extension condition.
OtherConditionsHold(c) ==
    /\ c.scheme \in {"http", "https"}
    /\ DomainAllowed(c.netloc)
    /\ ~DisallowedPath(c.path)
    /\ UrlLen(c.scheme, c.netloc, c.path, c.query) <= 200

\* C16 (extension condition of is_valid): a URL that meets the scheme, host, path
\* and length conditions and whose path has no final extension, or one outside the
\* disallowed set, is valid, whatever occurs in its host, earlier segments or query.
C16_FinalExtensionOnly ==
    (/\ call.fn = "is_valid"
     /\ call.done
     /\ OtherConditionsHold(call)
     /\ FinalExtension(call.path) \notin invalid_extensions) => call.result = TRUE

\* The same for URLs in which no "." + disallowed extension occurs anywhere.
C16_Probe_NoDotExtAnywhere ==
    (/\ call.fn = "is_valid"
     /\ call.done
     /\ OtherConditionsHold(call)
     /\ ~ContainsInvalidExtension(call.netloc, call.path, call.query)) => call.result = TRUE

\* C17 (queue invariant): whatever add_url / get_tbd_url / mark_url_complete calls
\* are made, no host queue holds a URL whose store record is completed, and every
\* queued URL is in the queue of its own netloc and in no other.
C17_QueueInvariant ==
    /\ \A u \in Queued(domain_queues) :
          get_urlhash(u) \in DOMAIN save => ~save[get_urlhash(u)].completed
    /\ \A d \in DOMAIN domain_queues :
          \A i \in 1..Len(domain_queues[d]) :
              /\ Netloc(domain_queues[d][i]) = d
              /\ \A e \in DOMAIN domain_queues \ {d} :
                    domain_queues[d][i] \notin Range(domain_queues[e])

\* The part of C17 about netlocs alone.
C17_Probe_OwnQueueOnly ==
    \A d \in DOMAIN domain_queues :
        \A i \in 1..Len(domain_queues[d]) :
            /\ Netloc(domain_queues[d][i]) = d
            /\ \A e \in DOMAIN domain_queues \ {d} :
                  domain_queues[d][i] \notin Range(domain_queues[e])

\* C18 (in-progress set invariant): with the workers running Worker.run, the
\* in-progress set shares no URL with any host queue and holds at most one URL per
\* worker.
C18_InProgressInvariant ==
    /\ global_in_progress \cap Queued(domain_queues) = {}
    /\ Cardinality(global_in_progress) <= Cardinality(Workers)

\* Every worker holds a URL while another URL waits in a queue.
C18_Witness ==
    /\ Cardinality(global_in_progress) = Cardinality(Workers)
    /\ Queued(domain_queues) # {}
    /\ \A w \in Workers : url[w] \in global_in_progress

\* The hosts with a non-empty queue whose delay has elapsed at time t.
ReadyHosts(t) ==
    {d \in AllowedNetlocs : domain_queues[d] # <<>> /\ PolitenessElapsed(d, t)}

\* C19 (host tie-break): when get_tbd_url dispenses a URL while several hosts with
\* non-empty queues have their delay elapsed, the URL is of the host among them
\* that was accessed least recently (a host never accessed comes first).
C19_EarliestLastAccess ==
    [][\A w \in Workers :
          (/\ GetTbdUrl(w)
           /\ url'[w] # NoneUrl
           /\ Cardinality(ReadyHosts(now)) >= 2)
              => \A d \in ReadyHosts(now) :
                    last_domain_check[Netloc(url'[w])] <= last_domain_check[d]]_vars

\* The same when the ready hosts were never accessed or accessed at the same time.
C19_Probe_DispensesFromReadyHost ==
    [][\A w \in Workers :
          (/\ GetTbdUrl(w)
           /\ url'[w] # NoneUrl
           /\ Cardinality(ReadyHosts(now)) >= 2)
              => Netloc(url'[w]) \in ReadyHosts(now)]_vars

\* ------------------------------------------------------- is_similar_content
\* content_fingerprints holds at most WindowCapacity entries (line 447) of the
\* form [url, hash]; the text of a page is given by its SimHash fingerprint.
WindowCapacity == 4

\* threshold = 0.1 (line 412), in tenths.
ThresholdTenths == 1

TextFingerprints == {0, 1}

SimilarPaths == {"/a", "/about/x", "/x/about/y", "/~user/x"}

\* Line 418: "~" in parsed.path.
TildeInUrlPath(path) == path = "/~user/x"

\* Lines 422-428: an important path occurs somewhere in the lower-cased path.
ImportantInPath(path) == path \in {"/about/x", "/x/about/y"}

\* Faulty variant: entries of every host are compared.
SameDomain_AnyHost(stored, domain) == TRUE

\* Line 438: urlparse(stored_url).netloc == domain.
SameDomain(stored, domain) == stored.url.netloc = domain

\* Line 439: current_hash.distance(stored_hash) < threshold.
BelowThreshold(current_hash, stored_hash) ==
    10 * distance(current_hash, stored_hash) < ThresholdTenths

\* Lines 437-443: the loop over content_fingerprints from entry i on; TRUE when
\* the third similar entry is met.
RECURSIVE ScanFingerprints(_, _, _, _)
ScanFingerprints(i, domain, current_hash, similar_count) ==
    IF i > Len(content_fingerprints) THEN FALSE
    ELSE IF /\ SameDomain(content_fingerprints[i], domain)
            /\ BelowThreshold(current_hash, content_fingerprints[i].hash)
         THEN IF similar_count + 1 >= 3 THEN TRUE
              ELSE ScanFingerprints(i + 1, domain, current_hash, similar_count + 1)
         ELSE ScanFingerprints(i + 1, domain, current_hash, similar_count)

\* The value is_similar_content returns (lines 412-450).
SimilarValue(domain, path, current_hash) ==
    IF TildeInUrlPath(path) THEN FALSE
    ELSE IF ImportantInPath(path) THEN FALSE
    ELSE ScanFingerprints(1, domain, current_hash, 0)

\* Lines 445-448: the entry is appended and the oldest one dropped when the
\* window is over its capacity.
AppendFingerprint(window, entry) ==
    IF Len(window) + 1 > WindowCapacity
    THEN Tail(Append(window, entry))
    ELSE Append(window, entry)

\* One call is_similar_content(text, url).
IsSimilarContent ==
    /\ \E domain \in AllowedNetlocs, path \in SimilarPaths, current_hash \in TextFingerprints :
          /\ call' = [fn |-> "is_similar_content", netloc |-> domain, path |-> path,
                      hash |-> current_hash, done |-> TRUE,
                      result |-> SimilarValue(domain, path, current_hash)]
          /\ content_fingerprints' =
                IF TildeInUrlPath(path) \/ ImportantInPath(path)
                      \/ SimilarValue(domain, path, current_hash)
                THEN content_fingerprints
                ELSE AppendFingerprint(content_fingerprints,
                                       [url |-> MkUrl(domain, path, ""), hash |-> current_hash])
    /\ UNCHANGED <<now, sync, frontier, locals, history, stats>>

NextSimilar == IsSimilarContent

SpecSimilar == Init /\ [][NextSimilar]_vars

\* The number of entries of the window with the given host and an identical fingerprint.
IdenticalSameHost(window, domain, current_hash) ==
    Cardinality({i \in 1..Len(window) :
                    window[i].url.netloc = domain /\ window[i].hash = current_hash})

LastEntries(s, n) == IF Len(s) <= n THEN s ELSE SubSeq(s, Len(s) - n + 1, Len(s))

\* The entry a call of is_similar_content would append.
CallEntry(c) == [url |-> MkUrl(c.netloc, c.path, ""), hash |-> c.hash]

\* C21 (duplicate window maintenance): a call that returns false appends its
\* (url, fingerprint), a call that returns true appends nothing, the window never
\* holds more than its capacity, and it is always the most recently appended
\* entries in insertion order.
C21_WindowMaintenance ==
    [][call'.fn = "is_similar_content" =>
          /\ Len(content_fingerprints') <= WindowCapacity
          /\ call'.result => content_fingerprints' = content_fingerprints
          /\ ~call'.result =>
                content_fingerprints' =
                    LastEntries(Append(content_fingerprints, CallEntry(call')),
                                WindowCapacity)]_vars

\* The same for URLs whose path has no "~" and contains no important path.
C21_Probe_NotExempt ==
    [][(/\ call'.fn = "is_similar_content"
        /\ ~TildeInUrlPath(call'.path)
        /\ ~ImportantInPath(call'.path)) =>
          /\ Len(content_fingerprints') <= WindowCapacity
          /\ call'.result => content_fingerprints' = content_fingerprints
          /\ ~call'.result =>
                content_fingerprints' =
                    LastEntries(Append(content_fingerprints, CallEntry(call')),
                                WindowCapacity)]_vars

\* The query has exactly one wiki-style action parameter (do=index).
SingleWikiAction(query) ==
    Cardinality({i \in 1..Len(query) : query[i] = "do=index"}) = 1

\* C22 (wiki-action trap): for a URL whose path is not whitelisted and whose query
\* has a single wiki-style action parameter, is_trap returns true.
C22_WikiActionTrap ==
    (/\ call.fn = "is_trap"
     /\ call.done
     /\ ~Whitelisted(call.path)
     /\ SingleWikiAction(call.query)) => call.result = TRUE

\* The same when the action parameter follows a second "?" inside the query.
C22_Probe_QuestionMarkInQuery ==
    (/\ call.fn = "is_trap"
     /\ call.done
     /\ ~Whitelisted(call.path)
     /\ QuestionDo(call.query)) => call.result = TRUE

\* ------------------------------------------------------- extract_next_links
\* The pages the pipeline is given: a plain page, a page under an important
\* path, a page with a date path, and a page of a host outside the allowed domains.
Pages ==
    {MkUrl("ics.uci.edu", "/a", ""), MkUrl("ics.uci.edu", "/about/x", ""),
     MkUrl("ics.uci.edu", "/2020/05/x", ""), MkUrl("example.com", "/a", "")}

\* The path of a page as is_trap sees it.
PageSegments(path) ==
    CASE path = "/a" -> <<"a">>
      [] path = "/b" -> <<"b">>
      [] path = "/about/x" -> <<"about", "x">>
      [] path = "/2020/05/x" -> <<"2020", "05", "x">>

\* is_trap(url) for a page (no query).
PageIsTrap(page) == is_trap(PageSegments(page.path), <<>>)

\* Line 166: 5 * 1024 * 1024 bytes.
FiveMiB == 5 * 1024 * 1024

\* Line 178: the least number of words of a page that is not skipped.
MinWords == 50

\* The links the <a href> tags of every page of the model give (lines 192-208).
PageHrefs == <<MkUrl("ics.uci.edu", "/b", "")>>

\* The redirect target of the model.
LocationUrl == MkUrl("cs.uci.edu", "/a", "")

RedirectStatus == {301, 302, 303, 307, 308}

\* Downloaded responses: no raw_response; an error status; a redirect whose
\* Location header is absent, empty or a URL; a page with its size, the number of
\* words of its text and the SimHash of its text.
NoPage == [content_size |-> 0, words |-> 0, hash |-> 0]

Responses ==
    {[raw_response |-> FALSE, status |-> 200, location |-> "absent", page |-> NoPage],
     [raw_response |-> TRUE, status |-> 404, location |-> "absent", page |-> NoPage]}
    \cup {[raw_response |-> TRUE, status |-> 301, location |-> l, page |-> NoPage] :
             l \in {"absent", "empty", "url"}}
    \cup {[raw_response |-> TRUE, status |-> 200, location |-> "absent",
           page |-> [content_size |-> s, words |-> n, hash |-> h]] :
             s \in {FiveMiB, FiveMiB + 1}, n \in {MinWords - 1, MinWords},
             h \in TextFingerprints}

\* The process stops calling the pipeline after MaxCrawled processed pages.
MaxCrawled == 2

\* Lines 146-180 reach the call of is_trap.
ReachesTrapCheck(resp) ==
    /\ resp.raw_response
    /\ resp.status = 200
    /\ ~(resp.page.content_size > FiveMiB)
    /\ ~(resp.page.words < MinWords)

\* Faulty variant: line 183 only asks is_similar_content.
TrapOrSimilar_NoTrapCheck(page, resp) ==
    SimilarValue(page.netloc, page.path, resp.page.hash)

\* Line 183: is_trap(url) or is_similar_content(text, url).
TrapOrSimilar(page, resp) ==
    PageIsTrap(page) \/ SimilarValue(page.netloc, page.path, resp.page.hash)

\* Lines 146-185: the page passes every check before process_content.
PassesChecks(page, resp) == ReachesTrapCheck(resp) /\ ~TrapOrSimilar(page, resp)

\* Lines 142-212: what extract_next_links returns, or that it raises.
ExtractValue(page, resp) ==
    IF ~resp.raw_response THEN [links |-> <<>>, raised |-> FALSE]
    ELSE IF resp.status \notin {200} \cup RedirectStatus THEN [links |-> <<>>, raised |-> FALSE]
    ELSE IF resp.status \in RedirectStatus
         THEN IF resp.location = "absent" THEN [links |-> <<>>, raised |-> TRUE]
              ELSE IF resp.location = "url" THEN [links |-> <<LocationUrl>>, raised |-> FALSE]
              ELSE [links |-> <<>>, raised |-> FALSE]
    ELSE IF PassesChecks(page, resp) THEN [links |-> PageHrefs, raised |-> FALSE]
    ELSE [links |-> <<>>, raised |-> FALSE]

\* Lines 271-315: process_content(url, text) on the statistics.
process_content(a, page, words) ==
    [unique_page_count  |-> a.unique_page_count \cup {page},
     page_word_counts   |-> (page :> words) @@ a.page_word_counts,
     word_frequencies   |-> a.word_frequencies + words,
     total_urls_crawled |-> a.total_urls_crawled + 1]

\* The window after the is_similar_content call of line 183, made when is_trap
\* returned false.
WindowAfterExtract(page, resp) ==
    IF /\ ReachesTrapCheck(resp)
       /\ ~PageIsTrap(page)
       /\ ~TildeInUrlPath(page.path)
       /\ ~ImportantInPath(page.path)
       /\ ~SimilarValue(page.netloc, page.path, resp.page.hash)
    THEN AppendFingerprint(content_fingerprints,
                           [url |-> page, hash |-> resp.page.hash])
    ELSE content_fingerprints

\* Lines 187-189.
AnalyticsAfterExtract(page, resp) ==
    IF PassesChecks(page, resp) /\ is_valid(page)
    THEN process_content(analytics, page, resp.page.words)
    ELSE analytics

\* One call extract_next_links(url, resp).
ExtractNextLinks(page, resp) ==
    /\ analytics.total_urls_crawled < MaxCrawled
    /\ call' = [fn |-> "extract_next_links", url |-> page,
                links |-> ExtractValue(page, resp).links,
                raised |-> ExtractValue(page, resp).raised]
    /\ content_fingerprints' = WindowAfterExtract(page, resp)
    /\ analytics' = AnalyticsAfterExtract(page, resp)
    /\ UNCHANGED <<now, sync, frontier, locals, history, visited_urls, robots_cache>>

NextExtract == \E page \in Pages, resp \in Responses : ExtractNextLinks(page, resp)

SpecExtract == Init /\ [][NextExtract]_vars

\* The conditions the claim names for a page to enter the statistics.
GateOpen(page, resp) ==
    /\ resp.status = 200
    /\ resp.page.content_size <= FiveMiB
    /\ resp.page.words >= MinWords
    /\ ~PageIsTrap(page)
    /\ ~SimilarValue(page.netloc, page.path, resp.page.hash)

RECURSIVE FilterLinks(_)
FilterLinks(links) ==
    IF links = <<>> THEN <<>>
    ELSE IF is_valid(Head(links)) /\ ~PageIsTrap(Head(links))
         THEN <<Head(links)>> \o FilterLinks(Tail(links))
         ELSE FilterLinks(Tail(links))

\* scraper.py lines 130-140: what scraper(url, resp) returns; an exception of
\* extract_next_links is caught and gives [].
ScraperValue(page, resp) ==
    IF page \in visited_urls THEN <<>>
    ELSE IF ExtractValue(page, resp).raised THEN <<>>
    ELSE FilterLinks(ExtractValue(page, resp).links)

\* worker.py lines 35-49 for a worker that was given `page` and whose download
\* returned `resp`: a status other than 200 goes to mark_url_complete without a
\* call of scraper.scraper; otherwise new_urls = scraper.scraper(url, resp).
WorkerScrape(page, resp) ==
    /\ analytics.total_urls_crawled < MaxCrawled
    /\ IF resp.status # 200
       THEN /\ call' = [fn |-> "worker", url |-> page, status |-> resp.status,
                        scraped |-> FALSE, new_urls |-> <<>>]
            /\ UNCHANGED <<content_fingerprints, analytics, visited_urls>>
       ELSE /\ call' = [fn |-> "worker", url |-> page, status |-> resp.status,
                        scraped |-> TRUE, new_urls |-> ScraperValue(page, resp)]
            /\ visited_urls' = visited_urls \cup {page}
            /\ content_fingerprints' =
                  IF page \in visited_urls THEN content_fingerprints
                  ELSE WindowAfterExtract(page, resp)
            /\ analytics' =
                  IF page \in visited_urls THEN analytics
                  ELSE AnalyticsAfterExtract(page, resp)
    /\ UNCHANGED <<now, sync, frontier, locals, history, robots_cache>>

NextPipeline == \E page \in Pages, resp \in Responses : WorkerScrape(page, resp)

SpecPipeline == Init /\ [][NextPipeline]_vars

\* The responses of the claim: a redirect status with a raw response.
IsRedirect(resp) == resp.raw_response /\ resp.status \in RedirectStatus

\* What the claim says the pipeline returns for a redirect response.
RedirectLinks(resp) == IF resp.location = "url" THEN <<LocationUrl>> ELSE <<>>

\* C24 (redirect handling): for a redirect response extract_next_links returns
\* [Location] when the header is present and [] when it is absent, and a worker
\* that fetched such a response obtains the Location link as its new_urls.
C24_RedirectHandling ==
    [][\A page \in Pages, resp \in Responses :
          (WorkerScrape(page, resp) /\ IsRedirect(resp)) =>
              /\ ExtractValue(page, resp) = [links |-> RedirectLinks(resp), raised |-> FALSE]
              /\ call'.new_urls = RedirectLinks(resp)]_vars

\* The part of C24 about extract_next_links when the header is present or empty.
C24_Probe_LocationPresent ==
    [][\A page \in Pages, resp \in Responses :
          (WorkerScrape(page, resp) /\ IsRedirect(resp) /\ resp.location # "absent") =>
              ExtractValue(page, resp) = [links |-> RedirectLinks(resp), raised |-> FALSE]]_vars

\* The worker never calls scraper.scraper for a redirect response.
C24_Probe_WorkerSkipsScraper ==
    [][\A page \in Pages, resp \in Responses :
          (WorkerScrape(page, resp) /\ IsRedirect(resp)) =>
              (~call'.scraped /\ call'.new_urls = <<>>)]_vars

\* C25 (store write failure in add_url): when the record insert or the sync of
\* add_url(u) fails, u is neither recorded nor queued, so that a later add_url(u)
\* records and queues it.
C25_FailedAddIsNotAdded ==
    [][\A w \in Workers :
          AddUrlRaises(w) =>
              /\ save' = save
              /\ domain_queues' = domain_queues]_vars

\* A failed add_url never queues the URL.
C25_Probe_FailedAddNotQueued ==
    [][\A w \in Workers : AddUrlRaises(w) => domain_queues' = domain_queues]_vars

\* In the run in which add_url failed, a URL that has a record, is not completed,
\* is not queued and was never dispensed stays out of every queue.
C25_Probe_StaysUnqueued ==
    [][~Restart =>
          \A u \in Urls :
              (/\ get_urlhash(u) \in DOMAIN save
               /\ u \notin Queued(domain_queues)
               /\ u \notin returned)
                  => u \notin Queued(domain_queues')]_vars

\* ----------------------------------------------------- is_allowed_by_robots
\* URLs with their scheme; the base URL of line 458 is <<scheme, netloc>>.
RobotsUrls ==
    [scheme : {"http", "https"}, netloc : AllowedNetlocs, path : Paths]

BaseUrl(u) == <<u.scheme, u.netloc>>

\* A parsed robots.txt is the set of paths it disallows for user-agent "*".
AllowAll == {}

RobotsFiles == {AllowAll, {"/b"}}

\* What download(robots_url, config) and the parsing do: a 200 response that
\* parses, another status or no raw_response, or an exception.
FetchOutcomes == {"ok", "status", "raises"}

\* rp.can_fetch("*", url).
can_fetch(policy, u) == u.path \notin policy

\* Lines 452-480: one call is_allowed_by_robots(url, config); outcome and file
\* say what a fetch of robots.txt gives, if one is made.
IsAllowedByRobots(u, outcome, file) ==
    /\ IF BaseUrl(u) \in DOMAIN robots_cache
       THEN /\ call' = [fn |-> "is_allowed_by_robots", url |-> u, fetched |-> FALSE,
                        result |-> can_fetch(robots_cache[BaseUrl(u)], u)]
            /\ UNCHANGED robots_cache
       ELSE IF outcome = "ok"
       THEN /\ call' = [fn |-> "is_allowed_by_robots", url |-> u, fetched |-> TRUE,
                        result |-> can_fetch(file, u)]
            /\ robots_cache' = (BaseUrl(u) :> file) @@ robots_cache
       ELSE /\ call' = [fn |-> "is_allowed_by_robots", url |-> u, fetched |-> TRUE,
                        result |-> TRUE]
            /\ UNCHANGED robots_cache
    /\ UNCHANGED <<now, sync, frontier, locals, history, content_fingerprints, analytics,
                   visited_urls>>

NextRobots ==
    \E u \in RobotsUrls, outcome \in FetchOutcomes, file \in RobotsFiles :
        IsAllowedByRobots(u, outcome, file)

SpecRobots == Init /\ [][NextRobots]_vars

\* C26 (robots cache): a call for a host whose policy is not cached fetches
\* robots.txt and stores a policy, allow-all when the fetch fails; a call for a
\* host with a cached policy issues no fetch; a failed fetch answers allowed.
C26_RobotsCache ==
    [][\A u \in RobotsUrls, outcome \in FetchOutcomes, file \in RobotsFiles :
          IsAllowedByRobots(u, outcome, file) =>
              /\ call'.fetched <=> BaseUrl(u) \notin DOMAIN robots_cache
              /\ BaseUrl(u) \in DOMAIN robots_cache'
              /\ (call'.fetched /\ outcome # "ok") =>
                    (call'.result = TRUE /\ robots_cache'[BaseUrl(u)] = AllowAll)]_vars

\* The parts of C26 that do not depend on a failed fetch being cached.
C26_Probe_FetchOnlyOnMiss ==
    [][\A u \in RobotsUrls, outcome \in FetchOutcomes, file \in RobotsFiles :
          IsAllowedByRobots(u, outcome, file) =>
              /\ call'.fetched <=> BaseUrl(u) \notin DOMAIN robots_cache
              /\ (call'.fetched /\ outcome = "ok") =>
                    (BaseUrl(u) \in DOMAIN robots_cache' /\ robots_cache'[BaseUrl(u)] = file)
              /\ (call'.fetched /\ outcome # "ok") => call'.result = TRUE]_vars

\* After a failed fetch the host has no cached policy.
C26_Probe_FailedFetchNotCached ==
    [][\A u \in RobotsUrls, outcome \in FetchOutcomes, file \in RobotsFiles :
          (IsAllowedByRobots(u, outcome, file) /\ call'.fetched /\ outcome # "ok") =>
              BaseUrl(u) \notin DOMAIN robots_cache']_vars

\* C27 (in-progress bookkeeping consistency): global_in_progress is the union of
\* the per-domain in-progress sets, and every URL of domain_in_progress[d] has
\* netloc d.
C27_InProgressConsistency ==
    /\ global_in_progress = UNION {domain_in_progress[d] : d \in DOMAIN domain_in_progress}
    /\ \A d \in DOMAIN domain_in_progress :
          \A u \in domain_in_progress[d] : Netloc(u) = d

\* URLs of two hosts are in progress after another URL was marked complete.
C27_Witness ==
    /\ Cardinality({Netloc(u) : u \in global_in_progress}) = 2
    /\ Completed(save) # {}
    /\ \A d \in AllowedNetlocs : domain_in_progress[d] # {}

\* ---------------------------------------------------- the Frontier's locks
\* threading.RLock: a thread may acquire a lock that is free or that it owns.
Acquirable(l, w) == l.owner \in {NoOwner, w}

Acquired(l, w) == [owner |-> w, count |-> l.count + 1]

\* Leaving a `with` block: the owner gives the lock up when its count drops to 0.
Released(l) == IF l.count = 1 THEN Unlocked ELSE [l EXCEPT !.count = @ - 1]

\* Faulty variant: mark_url_complete takes the domain lock before self._lock.
LockOrder_DomainFirst(op) ==
    IF op = "mark_url_complete" THEN <<"domain", "lock">> ELSE <<"lock", "domain">>

\* The nesting of the `with` statements of lines 52/78, 113/119 and 129/132:
\* self._lock outside, self._domain_locks[domain] inside.
LockOrder(op) == <<"lock", "domain">>

\* Thread w enters `with <which>:` and blocks until the lock can be acquired.
Enter(which, w) ==
    IF which = "lock"
    THEN /\ Acquirable(lock, w)
         /\ lock' = Acquired(lock, w)
         /\ UNCHANGED domain_locks
    ELSE /\ Acquirable(domain_locks[thread[w].domain], w)
         /\ domain_locks' = [domain_locks EXCEPT ![thread[w].domain] = Acquired(@, w)]
         /\ UNCHANGED lock

\* Thread w leaves `with <which>:`, by falling off its end or by a return.
Leave(which, w) ==
    IF which = "lock"
    THEN /\ lock' = Released(lock)
         /\ UNCHANGED domain_locks
    ELSE /\ domain_locks' = [domain_locks EXCEPT ![thread[w].domain] = Released(@)]
         /\ UNCHANGED lock

\* Line 50: get_tbd_url reads the clock and goes for the lock.
CallGetTbdUrl(w) ==
    /\ thread[w] = Idle
    /\ thread' = [thread EXCEPT ![w] =
                    [op |-> "get_tbd_url", at |-> "outer", arg |-> UnboundUrl, cur |-> now,
                     domain |-> NoDomain]]
    /\ UNCHANGED <<scraper, now, frontier, locals, history, lock, domain_locks>>

\* Lines 106-111: add_url returns without a lock for an empty or invalid URL.
CallAddUrl(w, raw) ==
    /\ thread[w] = Idle
    /\ thread' = [thread EXCEPT ![w] =
                    [op |-> "add_url",
                     at |-> IF Truthy(raw) /\ is_valid(normalize(raw)) THEN "outer" ELSE "return",
                     arg |-> raw, cur |-> NoTime, domain |-> NoDomain]]
    /\ UNCHANGED <<scraper, now, frontier, locals, history, lock, domain_locks>>

\* Lines 124-127: mark_url_complete returns without a lock for an empty URL and
\* computes the domain before it takes the lock.
CallMarkUrlComplete(w, u) ==
    /\ thread[w] = Idle
    /\ thread' = [thread EXCEPT ![w] =
                    [op |-> "mark_url_complete",
                     at |-> IF Truthy(u) THEN "outer" ELSE "return",
                     arg |-> u, cur |-> NoTime,
                     domain |-> IF Truthy(u) THEN Netloc(u) ELSE NoDomain]]
    /\ UNCHANGED <<scraper, now, frontier, locals, history, lock, domain_locks>>

\* Lines 52, 113, 129: the outer `with`.
AcquireOuter(w) ==
    /\ thread[w].at = "outer"
    /\ Enter(LockOrder(thread[w].op)[1], w)
    /\ thread' = [thread EXCEPT ![w].at = "select"]
    /\ UNCHANGED <<scraper, now, frontier, locals, history>>

\* Lines 54-75, 114-118, 130: which domain lock the method goes for, if any.
\* get_tbd_url returns None at line 75 and add_url skips a known URL at line 115
\* without touching a domain lock.
SelectDomain(w) ==
    LET t == thread[w]
        d == CASE t.op = "get_tbd_url" -> NextDomain(t.cur)
               [] t.op = "add_url" ->
                    IF get_urlhash(normalize(t.arg)) \in DOMAIN save
                    THEN NoDomain ELSE Netloc(normalize(t.arg))
               [] OTHER -> t.domain
    IN  /\ t.at = "select"
        /\ thread' = [thread EXCEPT ![w] =
                        [t EXCEPT !.domain = d,
                                  !.at = IF d = NoDomain THEN "release_outer" ELSE "inner"]]
        /\ UNCHANGED <<scraper, now, frontier, locals, history, lock, domain_locks>>

\* Lines 78, 119, 132: the inner `with`.
AcquireInner(w) ==
    /\ thread[w].at = "inner"
    /\ Enter(LockOrder(thread[w].op)[2], w)
    /\ thread' = [thread EXCEPT ![w].at = "body"]
    /\ UNCHANGED <<scraper, now, frontier, locals, history>>

\* The statements of the locked section (lines 80-100, 116-120, 131-143), run
\* while the thread holds its locks.
Body(w) ==
    LET t == thread[w]
    IN  /\ t.at = "body"
        /\ CASE t.op = "get_tbd_url" -> DoGetTbdUrl(t.cur)
             [] t.op = "add_url" -> DoAddUrl(t.arg) /\ UNCHANGED history
             [] OTHER -> DoMarkUrlComplete(t.arg) /\ UNCHANGED history
        /\ thread' = [thread EXCEPT ![w].at = "release_inner"]
        /\ UNCHANGED <<scraper, now, locals, lock, domain_locks>>

ReleaseInner(w) ==
    /\ thread[w].at = "release_inner"
    /\ Leave(LockOrder(thread[w].op)[2], w)
    /\ thread' = [thread EXCEPT ![w].at = "release_outer"]
    /\ UNCHANGED <<scraper, now, frontier, locals, history>>

ReleaseOuter(w) ==
    /\ thread[w].at = "release_outer"
    /\ Leave(LockOrder(thread[w].op)[1], w)
    /\ thread' = [thread EXCEPT ![w].at = "return"]
    /\ UNCHANGED <<scraper, now, frontier, locals, history>>

\* The method returns to its caller.
Return(w) ==
    /\ thread[w].at = "return"
    /\ thread' = [thread EXCEPT ![w] = Idle]
    /\ UNCHANGED <<scraper, now, frontier, locals, history, lock, domain_locks>>

\* A thread blocked in an acquire.
Acquire(w) == AcquireOuter(w) \/ AcquireInner(w)

\* Every other step of a thread inside a method.
Run(w) == SelectDomain(w) \/ Body(w) \/ ReleaseInner(w) \/ ReleaseOuter(w) \/ Return(w)

\* The arguments the threads pass: a stored URL of one host, a new URL of
\* another host, and the empty URL.
LockArgs == {MkUrl("ics.uci.edu", "/a", ""), MkUrl("cs.uci.edu", "/a", ""), EmptyUrl}

\* The clock stands still while the threads contend: time only decides whether
\* get_tbd_url finds a domain, and both outcomes occur without it.
NextLocks ==
    \/ \E w \in Workers : CallGetTbdUrl(w)
    \/ \E w \in Workers, raw \in LockArgs : CallAddUrl(w, raw)
    \/ \E w \in Workers, u \in LockArgs : CallMarkUrlComplete(w, u)
    \/ \E w \in Workers : AcquireOuter(w)
    \/ \E w \in Workers : SelectDomain(w)
    \/ \E w \in Workers : AcquireInner(w)
    \/ \E w \in Workers : Body(w)
    \/ \E w \in Workers : ReleaseInner(w)
    \/ \E w \in Workers : ReleaseOuter(w)
    \/ \E w \in Workers : Return(w)

\* Threads call the three methods concurrently.  A running thread keeps being
\* scheduled, and a thread blocked on a lock that is released again and again
\* gets it in the end.
SpecLocks ==
    /\ Init
    /\ [][NextLocks]_vars
    /\ \A w \in Workers : WF_vars(Run(w)) /\ SF_vars(Acquire(w))

\* C28 (deadlock freedom): with the workers calling get_tbd_url, add_url and
\* mark_url_complete concurrently, every call eventually returns.
C28_EveryCallReturns ==
    \A w \in Workers : (thread[w].op # "idle") ~> (thread[w].op = "idle")

\* The lock thread w is blocked on, and the thread that holds it.
BlockedOn(w) ==
    LET t == thread[w]
        which == IF t.at = "outer" THEN LockOrder(t.op)[1] ELSE LockOrder(t.op)[2]
        l == IF which = "lock" THEN lock ELSE domain_locks[t.domain]
    IN  IF t.at \in {"outer", "inner"} /\ ~Acquirable(l, w) THEN l.owner ELSE NoOwner

\* C28, the safety half: no thread waits for a lock whose owner is itself
\* waiting for a lock, and a domain lock is only held by the holder of self._lock.
C28_Probe_NoWaitChain ==
    /\ \A w \in Workers : BlockedOn(w) # NoOwner => BlockedOn(BlockedOn(w)) = NoOwner
    /\ \A d \in Netlocs : domain_locks[d].owner # NoOwner => domain_locks[d].owner = lock.owner

\* One thread is inside a locked section under both locks while the other one
\* is blocked on self._lock.
C28_Witness ==
    \E w, v \in Workers :
        /\ thread[w].at = "release_inner"
        /\ lock.owner = w
        /\ domain_locks[thread[w].domain].owner = w
        /\ BlockedOn(v) = w

====
